---- MODULE Spec2Model ----
(***************************************************************************)
(* Model of script.py: the thumbnail generator for mp4_downloads.json.     *)
(*                                                                         *)
(* Python strings are sequences of one-character strings.  A JSON value    *)
(* that is absent from a record is the sentinel Absent, a JSON null is the *)
(* sentinel Null.  Python's None, where an integer may also stand, is the  *)
(* integer None (no duration and no seek time is ever negative).           *)
(* Seek times are kept in milliseconds, so that duration / 2 is exact.     *)
(***************************************************************************)
EXTENDS Integers, Sequences, FiniteSets, TLC

VARIABLES
    manifest,       \* mp4_downloads.json: the list under "mp4_files"
    thumbs,         \* thumbnails/<identifier>.jpg: 0 = no file, else a write stamp
    thumbs0,        \* thumbs when the current run started
    run,            \* number of the current run of main
    pc,             \* position of the current run
    videos,         \* list(videos_by_id.values())
    i,              \* loop index of "for i, video in enumerate(videos, 1)"
    success_count,
    failed_count,
    skipped_count,
    exitCode,       \* process exit status, None while running
    log,            \* what the current run did to each record it reached
    prevStarted,    \* the previous run passed its startup checks
    prevFailed,     \* identifiers whose extraction failed in the previous run
    ptitle,         \* parse_duration driver: the title
    pexpect,        \* parse_duration driver: H*3600 + M*60 + S of the token built in
    presult,        \* parse_duration driver: the value returned
    ppc             \* parse_duration driver: position

vars == <<manifest, thumbs, thumbs0, run, pc, videos, i,
          success_count, failed_count, skipped_count, exitCode, log,
          prevStarted, prevFailed, ptitle, pexpect, presult, ppc>>

mainVars == <<manifest, thumbs, thumbs0, run, pc, videos, i,
              success_count, failed_count, skipped_count, exitCode, log,
              prevStarted, prevFailed>>

parseVars == <<ptitle, pexpect, presult, ppc>>

None == -1

Absent == <<"absent">>

Null == <<"null">>

-----------------------------------------------------------------------------
(* Strings *)

Digits == <<"0", "1", "2", "3", "4", "5", "6", "7", "8", "9">>

IsDigit(c) == \E d \in 1..10 : Digits[d] = c

DigitVal(c) == (CHOOSE d \in 1..10 : Digits[d] = c) - 1

IsSpace(c) == c = " "

\* s[a..b], empty when b < a
Sub(s, a, b) == IF b < a THEN <<>> ELSE SubSeq(s, a, b)

\* str.replace(c, '')
RECURSIVE Remove(_, _)
Remove(s, c) ==
    IF s = <<>> THEN <<>>
    ELSE IF Head(s) = c THEN Remove(Tail(s), c)
    ELSE <<Head(s)>> \o Remove(Tail(s), c)

\* str.strip()
RECURSIVE Strip(_)
Strip(s) ==
    IF s = <<>> THEN <<>>
    ELSE IF IsSpace(Head(s)) THEN Strip(Tail(s))
    ELSE IF IsSpace(s[Len(s)]) THEN Strip(Sub(s, 1, Len(s) - 1))
    ELSE s

\* int(str) accepts a non-empty run of digits (after strip); anything else
\* raises ValueError
CanInt(s) ==
    LET t == Strip(s)
    IN  /\ t # <<>>
        /\ t \notin {Absent, Null}
        /\ \A k \in 1..Len(t) : IsDigit(t[k])

RECURSIVE DigitsVal(_, _)
DigitsVal(t, acc) ==
    IF t = <<>> THEN acc
    ELSE DigitsVal(Tail(t), acc * 10 + DigitVal(Head(t)))

int(s) == DigitsVal(Strip(s), 0)

-----------------------------------------------------------------------------
\* parse_duration: re.search over the pattern
\*   "("  [group 1: digits "h" spaces]  group 2: digits "m"  spaces
\*        [group 3: digits "s"]  ","
\* (square brackets: optional; digits: one or more; spaces: zero or more)

\* first position >= p that holds no digit (\d+ and \d* are greedy)
RECURSIVE SkipDigits(_, _)
SkipDigits(s, p) ==
    IF p <= Len(s) /\ IsDigit(s[p]) THEN SkipDigits(s, p + 1) ELSE p

RECURSIVE SkipSpaces(_, _)
SkipSpaces(s, p) ==
    IF p <= Len(s) /\ IsSpace(s[p]) THEN SkipSpaces(s, p + 1) ELSE p

At(s, p, c) == p <= Len(s) /\ s[p] = c

NoMatch == [ok |-> FALSE, g1 |-> <<>>, g2 |-> <<>>, g3 |-> <<>>]

\* group 2, the spaces, the optional group 3 and the comma, from position p,
\* with group 1 already decided
MatchMinutes(s, p, g1) ==
    LET d == SkipDigits(s, p)
        q == SkipSpaces(s, d + 1)
        e == SkipDigits(s, q)
    IN  IF ~(d > p /\ At(s, d, "m")) THEN NoMatch
        ELSE IF e > q /\ At(s, e, "s") /\ At(s, e + 1, ",")
             THEN [ok |-> TRUE, g1 |-> g1, g2 |-> Sub(s, p, d), g3 |-> Sub(s, q, e)]
        ELSE IF At(s, q, ",")
             THEN [ok |-> TRUE, g1 |-> g1, g2 |-> Sub(s, p, d), g3 |-> <<>>]
        ELSE NoMatch

\* the pattern anchored at position p: the optional group 1 is tried first,
\* and given up when the rest does not match after it
MatchAt(s, p) ==
    IF ~At(s, p, "(") THEN NoMatch
    ELSE LET d == SkipDigits(s, p + 1)
             h == SkipSpaces(s, d + 1)
             with == IF d > p + 1 /\ At(s, d, "h")
                     THEN MatchMinutes(s, h, Sub(s, p + 1, h - 1))
                     ELSE NoMatch
         IN  IF with.ok THEN with ELSE MatchMinutes(s, p + 1, <<>>)

\* re.search: the leftmost position where the pattern matches
RECURSIVE Search(_, _)
Search(s, p) ==
    IF p > Len(s) THEN NoMatch
    ELSE IF MatchAt(s, p).ok THEN MatchAt(s, p)
    ELSE Search(s, p + 1)

parse_duration_hours60(title) ==
    LET match == Search(title, 1)
    IN  IF ~match.ok THEN None
        ELSE (IF match.g1 # <<>> THEN int(Remove(match.g1, "h")) * 60 ELSE 0)
           + (IF match.g2 # <<>> THEN int(Remove(match.g2, "m")) * 60 ELSE 0)
           + (IF match.g3 # <<>> THEN int(Remove(match.g3, "s")) ELSE 0)

parse_duration(title) ==
    LET match == Search(title, 1)
    IN  IF ~match.ok THEN None
        ELSE (IF match.g1 # <<>> THEN int(Remove(match.g1, "h")) * 3600 ELSE 0)
           + (IF match.g2 # <<>> THEN int(Remove(match.g2, "m")) * 60 ELSE 0)
           + (IF match.g3 # <<>> THEN int(Remove(match.g3, "s")) ELSE 0)

-----------------------------------------------------------------------------
(* Driver of parse_duration: titles built around a duration token *)

\* str(n), zero-padded to two digits when pad
RECURSIVE Dec(_)
Dec(n) == IF n < 10 THEN <<Digits[n + 1]>> ELSE Dec(n \div 10) \o <<Digits[(n % 10) + 1]>>

Format(n, pad) == IF pad /\ n < 10 THEN <<"0">> \o Dec(n) ELSE Dec(n)

Spaces(k) == [j \in 1..k |-> " "]

HourVals == {None, 0, 1, 2}

MinuteVals == {None, 0, 1, 14, 21, 38}

SecondVals == {None, 0, 1, 13}

\* text around the token; none of it holds a token of its own
Prefixes == { <<>>,
              <<"x", " ">>,
              <<"(", "1", "h", " ">>,
              <<"(", "5", "s", ",">>,
              <<"(", "7", "m", " ", "3", "s", " ", ",">>,
              <<"(">> }

Suffixes == { <<>>,
              <<" ", "7", "0", "4", "x", "5", "1", "2", ")">>,
              <<"(", "3", "m">> }

\* "(" [<H>h ] [<M>m] [ <S>s] "," : a component that is None is left out
Token(H, M, S, pad, sp) ==
       <<"(">>
    \o (IF H = None THEN <<>> ELSE Dec(H) \o <<"h">> \o Spaces(sp))
    \o (IF M = None THEN <<>> ELSE Format(M, pad) \o <<"m">>)
    \o (IF S = None THEN <<>> ELSE Spaces(sp) \o Format(S, pad) \o <<"s">>)
    \o <<",">>

Zero(x) == IF x = None THEN 0 ELSE x

\* the value the token stands for: minutes are mandatory
TokenSeconds(H, M, S) ==
    IF M = None THEN None ELSE Zero(H) * 3600 + M * 60 + Zero(S)

MaxSpaces == 2

MainOff ==
    /\ manifest = <<>>
    /\ thumbs = <<>>
    /\ thumbs0 = <<>>
    /\ run = 0
    /\ pc = "off"
    /\ videos = <<>>
    /\ i = 0
    /\ success_count = 0
    /\ failed_count = 0
    /\ skipped_count = 0
    /\ exitCode = None
    /\ log = <<>>
    /\ prevStarted = FALSE
    /\ prevFailed = {}

InitParse ==
    /\ MainOff
    /\ \E pre \in Prefixes, suf \in Suffixes, H \in HourVals, M \in MinuteVals,
          S \in SecondVals, pad \in BOOLEAN, sp \in 0..MaxSpaces :
          /\ ptitle = pre \o Token(H, M, S, pad, sp) \o suf
          /\ pexpect = TokenSeconds(H, M, S)
    /\ presult = None
    /\ ppc = "input"

Parse ==
    /\ ppc = "input"
    /\ presult' = parse_duration(ptitle)
    /\ ppc' = "parsed"
    /\ UNCHANGED <<ptitle, pexpect>>
    /\ UNCHANGED mainVars

NextParse == Parse

SpecParse == InitParse /\ [][NextParse]_vars

\* C6: for every title holding a token (<H>h <M>m <S>s, with optional hours and
\* seconds, parse_duration returns H*3600 + M*60 + S, and for every title whose
\* token lacks the minutes (hours or seconds alone) it returns None.
C6_ParseDuration == ppc = "parsed" => presult = pexpect

\* C6 witness: "(1h 21m, 704x512)" has been parsed to 4860
C6_Witness ==
    /\ ppc = "parsed"
    /\ ptitle = <<"(", "1", "h", " ", "2", "1", "m", ",",
                  " ", "7", "0", "4", "x", "5", "1", "2", ")">>
    /\ presult = 4860

\* "(14m 01s," gives 841, and a token with hours and seconds but no minutes
\* gives None
C6_Witness841 ==
    /\ ppc = "parsed"
    /\ ptitle = <<"(", "1", "4", "m", " ", "0", "1", "s", ",">>
    /\ presult = 841

C6_WitnessNone ==
    /\ ppc = "parsed"
    /\ ptitle = <<"(", "1", "h", " ", " ", "1", "3", "s", ",">>
    /\ presult = None

-----------------------------------------------------------------------------
(* The manifest, the thumbnails directory and the external tools *)

MaxRecords == 2

MaxRuns == 2

\* identifiers of videos; "" stands for an identifier or url that is absent
\* or empty (video.get(...) is then None or '', both false)
Ids == {"a", "b"}

IdVals == {""} \cup Ids

UrlVals == {"", "u"}

T_1m == <<"(", "1", "m", ",">>

T_0m == <<"(", "0", "m", ",">>

Titles == {Absent, Null, T_1m, T_0m}

S_0 == <<"0">>

S_200 == <<"2", "0", "0">>

S_300 == <<"3", "0", "0">>

S_abc == <<"a", "b", "c">>

Sizes == {Absent, S_0, S_200, S_300, S_abc}

VideoRecord == [identifier : IdVals, url : UrlVals, title : Titles, size : Sizes]

Manifests == UNION { [1..n -> VideoRecord] : n \in 0..MaxRecords }

\* one run of ffprobe: it times out, or exits with rc and prints out
N_A == <<"N", "/", "A">>

ProbeRuns == { [timeout |-> TRUE,  rc |-> 0, out |-> <<>>],
               [timeout |-> FALSE, rc |-> 1, out |-> <<>>],
               [timeout |-> FALSE, rc |-> 0, out |-> N_A],
               [timeout |-> FALSE, rc |-> 0, out |-> <<"0">>],
               [timeout |-> FALSE, rc |-> 0, out |-> <<"6", "0">>] }

\* one run of ffmpeg: it times out, or exits with rc; it has written the
\* output file exactly when it exits with 0
FfmpegRuns == { [timeout |-> TRUE,  rc |-> 0],
                [timeout |-> FALSE, rc |-> 1],
                [timeout |-> FALSE, rc |-> 0] }

-----------------------------------------------------------------------------
(* main: deduplication *)

\* int(video.get('size', 0)) raises on a value that is no integer
SizeOk(video) == video.size = Absent \/ CanInt(video.size)

SizeInt(video) == IF video.size = Absent THEN 0 ELSE int(video.size)

HasKey(vs, identifier) == \E j \in 1..Len(vs) : vs[j].identifier = identifier

KeyPos(vs, identifier) == CHOOSE j \in 1..Len(vs) : vs[j].identifier = identifier

\* the loop over all_videos from record k on; vs is videos_by_id in the order
\* its keys were inserted (the order of list(videos_by_id.values()))
RECURSIVE Dedup(_, _, _)
Dedup(all_videos, k, vs) ==
    IF k > Len(all_videos) THEN [raised |-> FALSE, videos |-> vs]
    ELSE LET video == all_videos[k]
             identifier == video.identifier
         IN  IF identifier = "" THEN Dedup(all_videos, k + 1, vs)
             ELSE IF ~HasKey(vs, identifier)
                  THEN Dedup(all_videos, k + 1, Append(vs, video))
             ELSE LET j == KeyPos(vs, identifier)
                  IN  IF ~SizeOk(vs[j]) \/ ~SizeOk(video)
                      THEN [raised |-> TRUE, videos |-> vs]
                      ELSE IF SizeInt(video) < SizeInt(vs[j]) /\ SizeInt(video) > 0
                           THEN Dedup(all_videos, k + 1, [vs EXCEPT ![j] = video])
                           ELSE Dedup(all_videos, k + 1, vs)

-----------------------------------------------------------------------------
(* main: one video *)

\* Python truth of an optional number
Truthy(x) == x # None /\ x # 0

\* duration / 2, in milliseconds
HalfMs(duration) == (duration * 1000) \div 2

FallbackSeconds == 30

\* float(result.stdout.strip()) of a whole number of seconds
get_video_duration(probe) ==
    IF probe.timeout THEN None
    ELSE IF probe.rc = 0
         THEN (IF CanInt(probe.out) THEN int(probe.out) ELSE None)
         ELSE None

\* lines 184-202: the seek time, whether ffprobe was run, and what it gave
SeekTime(duration, probe) ==
    IF Truthy(duration)
    THEN [seek_time |-> HalfMs(duration), probed |-> FALSE, probeDur |-> None,
          fallback |-> FALSE]
    ELSE LET d == get_video_duration(probe)
         IN  IF Truthy(d)
             THEN [seek_time |-> HalfMs(d), probed |-> TRUE, probeDur |-> d,
                   fallback |-> FALSE]
             ELSE [seek_time |-> FallbackSeconds * 1000, probed |-> TRUE,
                   probeDur |-> d, fallback |-> TRUE]

\* the value after -ss on ffmpeg's command line, None when -ss is left out
SeekArg(seek_time) == IF Truthy(seek_time) THEN seek_time ELSE None

\* ffmpeg's effect on the output path
FileWritten(ff) == ~ff.timeout /\ ff.rc = 0

generate_thumbnail_always(ff) == TRUE

\* lines 86-104: True on exit status 0, False on any other status, on a
\* timeout and on any other exception
generate_thumbnail(ff) == ~ff.timeout /\ ff.rc = 0

thumb_path_exists_never(identifier) == FALSE

thumb_path_exists(identifier) == thumbs[identifier] # 0

Existed(identifier) == identifier \in Ids /\ thumbs[identifier] # 0

Entry(video, kind, titleDur, st, attempts) ==
    [id |-> video.identifier, url |-> video.url, existed |-> Existed(video.identifier),
     kind |-> kind, titleDur |-> titleDur, probed |-> st.probed,
     probeDur |-> st.probeDur, fallback |-> st.fallback,
     seek |-> st.seek_time, ss |-> SeekArg(st.seek_time), attempts |-> attempts]

NoSeek == [seek_time |-> None, probed |-> FALSE, probeDur |-> None, fallback |-> FALSE]

-----------------------------------------------------------------------------
(* main *)

Init ==
    /\ manifest \in Manifests
    /\ thumbs \in [Ids -> {0, 1}]
    /\ thumbs0 = thumbs
    /\ run = 1
    /\ pc = "idle"
    /\ videos = <<>>
    /\ i = 0
    /\ success_count = 0
    /\ failed_count = 0
    /\ skipped_count = 0
    /\ exitCode = None
    /\ log = <<>>
    /\ prevStarted = FALSE
    /\ prevFailed = {}
    /\ ptitle = <<>>
    /\ pexpect = None
    /\ presult = None
    /\ ppc = "off"

\* lines 106-158: the startup checks, the load and the deduplication
Startup ==
    /\ pc = "idle"
    /\ \E ffmpegOk \in BOOLEAN, jsonExists \in BOOLEAN :
          IF ~ffmpegOk \/ ~jsonExists
          THEN /\ pc' = "exited"
               /\ exitCode' = 1
               /\ UNCHANGED <<videos, i>>
          ELSE LET d == Dedup(manifest, 1, <<>>)
               IN  IF d.raised
                   THEN /\ pc' = "crashed"
                        /\ exitCode' = 1
                        /\ UNCHANGED <<videos, i>>
                   ELSE /\ pc' = "loop"
                        /\ videos' = d.videos
                        /\ i' = 1
                        /\ UNCHANGED exitCode
    /\ UNCHANGED <<manifest, thumbs, thumbs0, run, success_count, failed_count,
                   skipped_count, log, prevStarted, prevFailed>>
    /\ UNCHANGED parseVars

\* lines 161-209: one iteration of the loop over videos
ProcessVideo ==
    /\ pc = "loop"
    /\ i <= Len(videos)
    /\ LET video == videos[i]
           url == video.url
           identifier == video.identifier
           title == IF video.title = Absent THEN <<>> ELSE video.title
       IN  IF url = "" \/ identifier = ""
           THEN /\ skipped_count' = skipped_count + 1
                /\ log' = Append(log, Entry(video, "skip_missing", None, NoSeek, 0))
                /\ i' = i + 1
                /\ UNCHANGED <<thumbs, success_count, failed_count, pc, exitCode>>
           ELSE IF thumb_path_exists(identifier)
           THEN /\ skipped_count' = skipped_count + 1
                /\ log' = Append(log, Entry(video, "skip_exists", None, NoSeek, 0))
                /\ i' = i + 1
                /\ UNCHANGED <<thumbs, success_count, failed_count, pc, exitCode>>
           ELSE IF title = Null
           THEN \* title[:60] raises TypeError, which nothing catches
                /\ pc' = "crashed"
                /\ exitCode' = 1
                /\ log' = Append(log, Entry(video, "crash", None, NoSeek, 0))
                /\ UNCHANGED <<thumbs, success_count, failed_count, skipped_count, i>>
           ELSE \E probe \in ProbeRuns, ff \in FfmpegRuns :
                LET duration == parse_duration(title)
                    st == SeekTime(duration, probe)
                    ok == generate_thumbnail(ff)
                IN  /\ thumbs' = IF FileWritten(ff)
                                 THEN [thumbs EXCEPT ![identifier] = run + 1]
                                 ELSE thumbs
                    /\ success_count' = IF ok THEN success_count + 1 ELSE success_count
                    /\ failed_count' = IF ok THEN failed_count ELSE failed_count + 1
                    /\ log' = Append(log, Entry(video, IF ok THEN "ok" ELSE "failed",
                                                duration, st, 1))
                    /\ i' = i + 1
                    /\ UNCHANGED <<skipped_count, pc, exitCode>>
    /\ UNCHANGED <<manifest, thumbs0, run, videos, prevStarted, prevFailed>>
    /\ UNCHANGED parseVars

\* lines 211-222: the summary; the process ends with status 0
Summary ==
    /\ pc = "loop"
    /\ i > Len(videos)
    /\ pc' = "done"
    /\ exitCode' = 0
    /\ UNCHANGED <<manifest, thumbs, thumbs0, run, videos, i, success_count,
                   failed_count, skipped_count, log, prevStarted, prevFailed>>
    /\ UNCHANGED parseVars

FailedIds == { log[k].id : k \in { n \in 1..Len(log) : log[n].kind = "failed" } }

\* the script is run again on the same manifest and the same thumbnails directory
Rerun ==
    /\ pc \in {"done", "exited", "crashed"}
    /\ run < MaxRuns
    /\ run' = run + 1
    /\ pc' = "idle"
    /\ thumbs0' = thumbs
    /\ prevStarted' = (pc # "exited")
    /\ prevFailed' = FailedIds
    /\ videos' = <<>>
    /\ i' = 0
    /\ success_count' = 0
    /\ failed_count' = 0
    /\ skipped_count' = 0
    /\ exitCode' = None
    /\ log' = <<>>
    /\ UNCHANGED <<manifest, thumbs>>
    /\ UNCHANGED parseVars

Next == Startup \/ ProcessVideo \/ Summary \/ Rerun

Spec == Init /\ [][Next]_vars

-----------------------------------------------------------------------------
(* The claims *)

Skips == {"skip_missing", "skip_exists"}

Entries == { log[k] : k \in 1..Len(log) }

Count(kinds) == Cardinality({ k \in 1..Len(log) : log[k].kind \in kinds })

IndicesOf(id) == { j \in 1..Len(manifest) : manifest[j].identifier = id }

Min(S) == CHOOSE x \in S : \A y \in S : x <= y

\* the record the selection rule names: the first of those with the smallest
\* positive size, and the first-seen when no size is positive
Selected(id) ==
    LET idx == IndicesOf(id)
        pos == { j \in idx : SizeInt(manifest[j]) > 0 }
        least == { j \in pos : \A n \in pos : SizeInt(manifest[j]) <= SizeInt(manifest[n]) }
    IN  IF pos = {} THEN manifest[Min(idx)] ELSE manifest[Min(least)]

\* C1: after the deduplication, for every identifier of the manifest (whose
\* records all carry an integer size) and every order of the records, the
\* retained record is the one with the smallest positive size among the records
\* of that identifier, first-seen on ties; a size of 0 never wins over a
\* positive one.
C1_SmallestPositiveKept ==
    pc \in {"loop", "done"} =>
        \A id \in Ids :
            (IndicesOf(id) # {} /\ \A j \in IndicesOf(id) : SizeOk(manifest[j]))
            => /\ HasKey(videos, id)
               /\ videos[KeyPos(videos, id)] = Selected(id)

Incomplete(video) == video.url = "" \/ video.identifier = ""

\* C2: when a run has finished, every record of the manifest that lacks its url
\* or its identifier has been counted as skipped exactly once, and neither the
\* probe nor generate_thumbnail was invoked for such a record.
C2_IncompleteCountedOnce ==
    /\ pc = "done" =>
          Count({"skip_missing"})
              = Cardinality({ j \in 1..Len(manifest) : Incomplete(manifest[j]) })
    /\ \A e \in Entries :
          (e.url = "" \/ e.id = "") => (e.attempts = 0 /\ ~e.probed)

\* C3: a deduplicated record whose thumbnail file exists when the record is
\* reached is counted as skipped, neither the probe nor generate_thumbnail is
\* invoked for it, and its file is left as the run found it.
C3_ExistingSkipped ==
    /\ \A e \in Entries :
          e.existed => /\ e.kind \in Skips
                       /\ ~e.probed
                       /\ e.attempts = 0
                       /\ thumbs[e.id] = thumbs0[e.id]
    /\ skipped_count = Count(Skips)

\* C3 witness: a record with url and identifier, whose file existed, was skipped
C3_Witness ==
    \E e \in Entries :
        /\ e.existed
        /\ e.url # ""
        /\ e.kind = "skip_exists"
        /\ thumbs[e.id] = 1
        /\ skipped_count >= 1

\* C4: once the startup checks have passed, no record makes the run abort:
\* the run never ends on an exception that nothing catches.
C4_NoAbort == pc # "crashed"

Extracted == {"ok", "failed"}

\* the duration the three tiers know for an entry: the title's, else the probe's
KnownDuration(e) == IF e.titleDur # None THEN e.titleDur ELSE e.probeDur

\* C7: for every record that is not skipped, the seek time passed to
\* generate_thumbnail is duration / 2 when a duration is known (from the title
\* or, failing that, from the probe), and exactly 30 s when none is known; it
\* is never unset.
C7_SeekIsHalfOrFallback ==
    \A e \in Entries :
        e.kind \in Extracted =>
            /\ e.seek # None
            /\ KnownDuration(e) # None => e.seek = HalfMs(KnownDuration(e))
            /\ KnownDuration(e) = None => e.seek = FallbackSeconds * 1000

\* C8: for every record that is not skipped, the probe is invoked exactly when
\* the title gave no value, and the fallback constant is used only when the
\* probe gave no value either; a title that parses to 0 seconds triggers
\* neither.
C8_ThreeTierOrder ==
    \A e \in Entries :
        e.kind \in Extracted =>
            /\ e.probed <=> e.titleDur = None
            /\ e.fallback => (e.titleDur = None /\ e.probeDur = None)

\* C9: the process exits with 1 only on a failed startup check, before any
\* record is processed; every other run exits with 0.
C9_ExitStatus ==
    /\ exitCode = 1 => (pc = "exited" /\ log = <<>> /\ thumbs = thumbs0)
    /\ (exitCode # None /\ pc # "exited") => exitCode = 0

\* C10: for every record that is not skipped, generate_thumbnail is invoked
\* exactly once in a run; a failed attempt is counted once, leaves no thumbnail
\* file, and the next run attempts the extraction of that record again.
C10_OneAttemptAndRetry ==
    /\ \A e \in Entries :
          e.kind \notin Skips =>
              /\ e.attempts = 1
              /\ e.kind = "failed" => thumbs[e.id] = 0
    /\ failed_count = Count({"failed"})
    /\ \A e \in Entries : e.id \in prevFailed => e.attempts = 1

====
